---------------------------- MODULE Spec2Model ----------------------------
(***************************************************************************)
(* Model of the Ansible module hdfs_file (library/hdfs_file.py) and of the *)
(* HDFS contexts it drives (module_utils/HdfsUtils.py).                    *)
(*                                                                         *)
(* One HDFS path is managed.  `fs` is what the name node holds for it.     *)
(* The task (its parameters and the check-mode flag) is fixed at Init; the *)
(* host runs the module up to MaxRuns times with that same task, one       *)
(* invocation after the other, and stops at the first failed invocation.   *)
(* main() is cut at its context calls: every call of a context method is   *)
(* one step.                                                               *)
(*                                                                         *)
(* Python values are tagged records (None, str, int, bool), and a Python   *)
(* str is a sequence of one-character strings, so that str(), int() and    *)
(* the string concatenation of chown are computed and not assumed.         *)
(*                                                                         *)
(* The backend: any hdfs command may exit non-zero and then leaves the     *)
(* path as it was; it exits non-zero where HDFS refuses (rm of a missing   *)
(* path, rm of a directory without -r, touchz of a directory, chown, chmod *)
(* and setrep of a missing path).  A directory reports replication 0 and   *)
(* keeps it under setrep.  `hdfs dfs -stat` answers for the path as it is. *)
(* Owner and group are account names (no ":").                             *)
(*                                                                         *)
(* The model starts inside main(), with the names main() uses bound.       *)
(***************************************************************************)
EXTENDS Integers, Sequences, FiniteSets, TLC

\* Number of successive invocations of the module with the same task.
MaxRuns == 2
\* Largest replication factor of a file, in the backend and in the task.
MaxRep == 2

Runs == 1..MaxRuns

-----------------------------------------------------------------------------
(* Python values *)

None == [k |-> "None", s |-> <<>>, n |-> 0]
PyStr(x) == [k |-> "str", s |-> x, n |-> 0]
PyInt(i) == [k |-> "int", s |-> <<>>, n |-> i]
PyTrue == [k |-> "bool", s |-> <<>>, n |-> 1]
PyFalse == [k |-> "bool", s |-> <<>>, n |-> 0]

\* Truth value of `if v:`.
Truthy(v) ==
    \/ v.k = "str" /\ v.s # <<>>
    \/ v.k \in {"int", "bool"} /\ v.n # 0

DigitChars == <<"0", "1", "2", "3", "4", "5", "6", "7", "8", "9">>

DigitVal(c) == (CHOOSE i \in 1..10 : DigitChars[i] = c) - 1

IsDigits(s) == s # <<>> /\ \A i \in 1..Len(s) : \E j \in 1..10 : DigitChars[j] = s[i]

\* Decimal text of a natural number: str(n), and the %r of `hdfs dfs -stat`.
RECURSIVE Decimal(_)
Decimal(n) ==
    IF n < 10 THEN <<DigitChars[n + 1]>>
    ELSE Decimal(n \div 10) \o <<DigitChars[(n % 10) + 1]>>

\* int(s) for a string of digits.
RECURSIVE ParseInt(_)
ParseInt(s) ==
    IF Len(s) = 1 THEN DigitVal(s[1])
    ELSE 10 * ParseInt(SubSeq(s, 1, Len(s) - 1)) + DigitVal(s[Len(s)])

NoneText == <<"N", "o", "n", "e">>

\* str(v)
Str(v) ==
    CASE v.k = "None" -> NoneText
      [] v.k = "str" -> v.s
      [] v.k = "int" -> Decimal(v.n)
      [] OTHER -> IF v.n = 1 THEN <<"T", "r", "u", "e">> ELSE <<"F", "a", "l", "s", "e">>

-----------------------------------------------------------------------------
(* The task and the backend *)

\* User and group names known to the cluster; one is spelled like str(None).
Names == {<<"a">>, NoneText}

\* Replication factors as the task may spell them: plain, or zero-padded.
RepTexts ==
    {Decimal(r) : r \in 1..MaxRep} \cup {<<"0">> \o Decimal(r) : r \in 1..MaxRep}

ModeTexts == {<<"0", "7", "5", "5">>}

States == {"file", "directory", "touch", "absent"}
Methods == {"command", "library"}

Optional(S) == {None} \cup {PyStr(x) : x \in S}

ParamSpace ==
    [state : States,
     method : Methods,
     owner : Optional(Names),
     group : Optional(Names),
     replication : Optional(RepTexts),
     mode : Optional(ModeTexts),
     recurse : Optional({<<"y", "e", "s">>})]

\* What the name node holds for the path.  A directory has replication 0.
FsAbsent == [kind |-> "absent", owner |-> <<>>, group |-> <<>>, replication |-> 0, mode |-> <<>>]
DefaultMode == <<"0", "6", "4", "4">>

FsFile(o, g, r) ==
    [kind |-> "regular file", owner |-> o, group |-> g, replication |-> r, mode |-> DefaultMode]

FsDir(o, g) ==
    [kind |-> "directory", owner |-> o, group |-> g, replication |-> 0, mode |-> DefaultMode]

FsStates ==
    {FsAbsent}
    \cup {FsFile(o, g, r) : o \in Names, g \in Names, r \in 1..MaxRep}
    \cup {FsDir(o, g) : o \in Names, g \in Names}


-----------------------------------------------------------------------------
(* HdfsContextCli: the command line each method builds *)

NoArg == <<>>

\* cmd = [self.cmd, "dfs", "-chmod", mode, path], "-R" inserted if recurse
chmod(mode, recurse) == [op |-> "-chmod", opt |-> Truthy(recurse), arg |-> mode.s]

\* target = owner if owner else "" + ":" + group if group else ""
\* which Python reads as  owner if owner else (("" + ":" + group) if group else "")
ChownTarget(owner, group) ==
    IF Truthy(owner) THEN owner.s
    ELSE IF Truthy(group) THEN <<>> \o <<":">> \o group.s
    ELSE <<>>

chown(owner, group, recurse) ==
    [op |-> "-chown", opt |-> Truthy(recurse), arg |-> ChownTarget(owner, group)]

mkdir(parent) == [op |-> "-mkdir", opt |-> Truthy(parent), arg |-> NoArg]

remove(recurse) == [op |-> "-rm", opt |-> Truthy(recurse), arg |-> NoArg]

setrep(factor) == [op |-> "-setrep", opt |-> FALSE, arg |-> factor.s]

touch == [op |-> "-touchz", opt |-> FALSE, arg |-> NoArg]

-----------------------------------------------------------------------------
(* The hdfs command line tool acting on the path *)

\* Position of the first ":" of a chown target, 0 if it has none.
ColonAt(t) ==
    IF \E i \in 1..Len(t) : t[i] = ":"
    THEN CHOOSE i \in 1..Len(t) : t[i] = ":" /\ \A j \in 1..(i - 1) : t[j] # ":"
    ELSE 0

OwnerPart(t) == IF ColonAt(t) = 0 THEN t ELSE SubSeq(t, 1, ColonAt(t) - 1)
GroupPart(t) == IF ColonAt(t) = 0 THEN <<>> ELSE SubSeq(t, ColonAt(t) + 1, Len(t))

\* The states of the path in which `hdfs dfs <cmd> path` can exit with status 0.
\* A created file or directory gets the owner and group the cluster gives it.
HdfsDfs(cmd, f) ==
    CASE cmd.op = "-mkdir" ->
            IF f.kind = "absent" THEN {FsDir(o, g) : o \in Names, g \in Names}
            ELSE IF f.kind = "directory" /\ cmd.opt THEN {f}
            ELSE {}
      [] cmd.op = "-rm" ->
            IF f.kind = "regular file" \/ (f.kind = "directory" /\ cmd.opt)
            THEN {FsAbsent} ELSE {}
      [] cmd.op = "-touchz" ->
            IF f.kind = "absent"
            THEN {FsFile(o, g, r) : o \in Names, g \in Names, r \in 1..MaxRep}
            ELSE IF f.kind = "regular file" THEN {f}
            ELSE {}
      [] cmd.op = "-chown" ->
            IF f.kind = "absent" \/ cmd.arg = <<>> THEN {}
            ELSE {[f EXCEPT
                     !.owner = IF OwnerPart(cmd.arg) # <<>> THEN OwnerPart(cmd.arg) ELSE @,
                     !.group = IF GroupPart(cmd.arg) # <<>> THEN GroupPart(cmd.arg) ELSE @]}
      [] cmd.op = "-setrep" ->
            IF f.kind = "absent" \/ ~IsDigits(cmd.arg) THEN {}
            ELSE IF ParseInt(cmd.arg) < 1 THEN {}
            ELSE IF f.kind = "directory" THEN {f}
            ELSE {[f EXCEPT !.replication = ParseInt(cmd.arg)]}
      [] cmd.op = "-chmod" ->
            IF f.kind = "absent" THEN {} ELSE {[f EXCEPT !.mode = cmd.arg]}
      [] OTHER -> {}

\* The "%F[SEP]%u[SEP]%g[SEP]%r" of `hdfs dfs -stat`, split at [SEP].
StatOutput(f) == <<f.kind, f.owner, f.group, Decimal(f.replication)>>

\* stats without its renaming of "regular file".
stats_raw(f) ==
    IF f.kind = "absent"
    THEN [state |-> "absent", owner |-> None, group |-> None, replication |-> None]
    ELSE LET out == StatOutput(f) IN
         [state |-> out[1],
          owner |-> PyStr(out[2]),
          group |-> PyStr(out[3]),
          replication |-> PyInt(ParseInt(out[4]))]

\* HdfsContextCli.stats: a non-zero exit is taken as "no such file".
stats(f) ==
    IF f.kind = "absent"
    THEN [state |-> "absent", owner |-> None, group |-> None, replication |-> None]
    ELSE LET out == StatOutput(f) IN
         [state |-> IF out[1] = "regular file" THEN "file" ELSE out[1],
          owner |-> PyStr(out[2]),
          group |-> PyStr(out[3]),
          replication |-> PyInt(ParseInt(out[4]))]

-----------------------------------------------------------------------------
(* Calls of the context's action methods *)

\* A call as main() and resolv_states() write it: the method and its arguments.
CallRec(op, owner, group, flag, arg) ==
    [op |-> op, owner |-> owner, group |-> group, flag |-> flag, arg |-> arg]

\* The command line HdfsContextCli runs for a call.
Command(c) ==
    CASE c.op = "chmod" -> chmod(c.arg, c.flag)
      [] c.op = "chown" -> chown(c.owner, c.group, c.flag)
      [] c.op = "mkdir" -> mkdir(c.flag)
      [] c.op = "remove" -> remove(c.flag)
      [] c.op = "setrep" -> setrep(c.arg)
      [] OTHER -> touch

\* The outcomes of a call: it returns (ok) or raises HdfsUtilsError, and leaves the
\* path as fs.  A method replaced by HdfsCheckMode returns without running anything.
Invoke(c, f, neutralized) ==
    IF neutralized THEN {[ok |-> TRUE, fs |-> f]}
    ELSE {[ok |-> TRUE, fs |-> g] : g \in HdfsDfs(Command(c), f)}
         \cup {[ok |-> FALSE, fs |-> f]}

-----------------------------------------------------------------------------
(* library/hdfs_file.py *)

VARIABLES
    fs,          \* the path in HDFS
    params,      \* module.params of the task
    check_mode,  \* module.check_mode of the task
    neutralized, \* the context's action methods were replaced by HdfsCheckMode
    pc,          \* per invocation: where main() stands
    status,      \* per invocation: the dict returned by context.stats
    changed,     \* per invocation: the local `changed`
    calls,       \* per invocation: the context calls made so far, in order
    raised,      \* per invocation: which of its calls raised HdfsUtilsError, 0 if none
    result       \* per invocation: how the module ended

vars == <<fs, params, check_mode, neutralized, pc, status, changed, calls, raised, result>>

NoStatus == [state |-> "unknown", owner |-> None, group |-> None, replication |-> None]
NoResult == [kind |-> "none", changed |-> FALSE, msg |-> ""]

\* exit_json reporting a change whatever it is given.
exit_json_const(c) == [kind |-> "exit_json", changed |-> TRUE, msg |-> ""]

\* module.exit_json(changed=c)
exit_json(c) == [kind |-> "exit_json", changed |-> c, msg |-> ""]
\* module.fail_json(msg=m)
fail_json(m) == [kind |-> "fail_json", changed |-> FALSE, msg |-> m]
\* an exception nobody catches ends the module with a traceback
Traceback(m) == [kind |-> "traceback", changed |-> FALSE, msg |-> m]

\* resolv_states: what it does for the pair (old, new): fail, or make one call.
ResolvFail(m) == [fail |-> TRUE, msg |-> m, call |-> CallRec("none", None, None, None, None)]
ResolvCall(c) == [fail |-> FALSE, msg |-> "", call |-> c]

\* resolv_states removing a directory without recurse=True.
resolv_states_flat(old, new) ==
    IF old = "absent" /\ new = "file" THEN ResolvFail("no such file")
    ELSE IF old = "absent" /\ new = "directory"
        THEN ResolvCall(CallRec("mkdir", None, None, PyTrue, None))
    ELSE IF new = "touch" /\ old \in {"absent", "file"}
        THEN ResolvCall(CallRec("touch", None, None, None, None))
    ELSE IF new = "absent" /\ old \in {"file", "directory"}
        THEN ResolvCall(CallRec("remove", None, None, PyFalse, None))
    ELSE ResolvFail("unsupported state convert")

\* resolv_states touching whatever is not a file yet, a directory included.
resolv_states_touchdir(old, new) ==
    IF old = "absent" /\ new = "file" THEN ResolvFail("no such file")
    ELSE IF old = "absent" /\ new = "directory"
        THEN ResolvCall(CallRec("mkdir", None, None, PyTrue, None))
    ELSE IF new = "touch"
        THEN ResolvCall(CallRec("touch", None, None, None, None))
    ELSE IF new = "absent" /\ old = "file"
        THEN ResolvCall(CallRec("remove", None, None, PyFalse, None))
    ELSE IF new = "absent" /\ old = "directory"
        THEN ResolvCall(CallRec("remove", None, None, PyTrue, None))
    ELSE ResolvFail("unsupported state convert")

resolv_states(old, new) ==
    IF old = "absent" /\ new = "file" THEN ResolvFail("no such file")
    ELSE IF old = "absent" /\ new = "directory"
        THEN ResolvCall(CallRec("mkdir", None, None, PyTrue, None))
    ELSE IF new = "touch" /\ old \in {"absent", "file"}
        THEN ResolvCall(CallRec("touch", None, None, None, None))
    ELSE IF new = "absent" /\ old = "file"
        THEN ResolvCall(CallRec("remove", None, None, PyFalse, None))
    ELSE IF new = "absent" /\ old = "directory"
        THEN ResolvCall(CallRec("remove", None, None, PyTrue, None))
    ELSE ResolvFail("unsupported state convert")

\* should_modify without its comparison of the current value.
should_modify_nocompare(st, pa, value) == pa[value] # None

\* should_modify without its rule for state=touch.
should_modify_notouch(st, pa, value) ==
    IF pa[value] = None THEN FALSE
    ELSE Str(st[value]) # Str(pa[value])

should_modify(st, pa, value) ==
    IF pa[value] = None THEN FALSE
    ELSE IF pa.state = "touch" THEN TRUE
    ELSE IF Str(st[value]) = Str(pa[value]) THEN FALSE
    ELSE TRUE

\* The STATE section entered whatever the state of the path is.
StateDiffers_always(st, pa) == TRUE

\* if status["state"] != params["state"]:
StateDiffers(st, pa) == st.state # pa.state

\* main() without its exit for state=absent.
ExitsAfterState_never(pa) == FALSE

\* if params["state"] == "absent": module.exit_json(changed=changed)
ExitsAfterState(pa) == pa.state = "absent"

\* The attribute sections of main(): whether the section runs, and its call.
\* The OWNER section comparing the owner asked for with the group of the path.
OwnerWanted_group(st, pa) ==
    should_modify([st EXCEPT !.owner = st.group], pa, "owner")

OwnerWanted(st, pa) == should_modify(st, pa, "owner")
OwnerCall(pa) == CallRec("chown", pa.owner, None, pa.recurse, None)

GroupWanted(st, pa) == should_modify(st, pa, "group")
\* The GROUP section passing the owner along with the group.
GroupCall_combined(pa) == CallRec("chown", pa.owner, pa.group, pa.recurse, None)

GroupCall(pa) == CallRec("chown", None, pa.group, pa.recurse, None)

ReplicationWanted(st, pa) == should_modify(st, pa, "replication")
ReplicationCall(pa) == CallRec("setrep", None, None, None, pa.replication)

\* The MODE section run for state=touch only.
ModeWanted_touch(pa) == pa.mode # None /\ pa.state = "touch"

ModeWanted(pa) == pa.mode # None
ModeCall(pa) == CallRec("chmod", None, None, pa.recurse, pa.mode)

Init ==
    /\ fs \in FsStates
    /\ params \in ParamSpace
    /\ check_mode \in BOOLEAN
    /\ neutralized = FALSE
    /\ pc = [i \in Runs |-> "idle"]
    /\ status = [i \in Runs |-> NoStatus]
    /\ changed = [i \in Runs |-> FALSE]
    /\ calls = [i \in Runs |-> <<>>]
    /\ raised = [i \in Runs |-> 0]
    /\ result = [i \in Runs |-> NoResult]

\* The host runs the task again only after the previous invocation exited well.
MayStart(i) == pc[i] = "idle" /\ (IF i = 1 THEN TRUE ELSE pc[i - 1] = "done")

\* main(), up to the context: build_module, the method, HdfsCheckMode.
\* HdfsCheckMode.__init__ replaces the six action methods of the instance and
\* then returns it: Python raises TypeError for an __init__ that returns a value.
Context(i) ==
    /\ pc[i] = "idle"
    /\ IF params.method = "library"
       THEN /\ pc' = [pc EXCEPT ![i] = "failed"]
            /\ result' = [result EXCEPT ![i] = fail_json("Not yet implemented")]
            /\ UNCHANGED neutralized
       ELSE IF check_mode
       THEN /\ neutralized' = TRUE
            /\ pc' = [pc EXCEPT ![i] = "failed"]
            /\ result' = [result EXCEPT ![i] = Traceback("TypeError")]
       ELSE /\ pc' = [pc EXCEPT ![i] = "stats"]
            /\ UNCHANGED <<neutralized, result>>
    /\ UNCHANGED <<fs, params, check_mode, status, changed, calls, raised>>

Main_Context(i) == MayStart(i) /\ Context(i)

\* status = context.stats(params["path"])
Main_Stats(i) ==
    /\ pc[i] = "stats"
    /\ status' = [status EXCEPT ![i] = stats(fs)]
    /\ calls' = [calls EXCEPT ![i] = Append(@, CallRec("stats", None, None, None, None))]
    /\ pc' = [pc EXCEPT ![i] = "state"]
    /\ UNCHANGED <<fs, params, check_mode, neutralized, changed, raised, result>>

\* resolv_states with `pass` in its except clause: main() goes on.
ResolvExcept_pass(pa) ==
    IF ExitsAfterState(pa) THEN [pc |-> "done", result |-> exit_json(TRUE)]
    ELSE [pc |-> "owner", result |-> NoResult]

\* except HdfsUtilsError as e: module.fail_json(msg=e)
ResolvExcept(pa) == [pc |-> "failed", result |-> fail_json("HdfsUtilsError")]

\* STATE: the comparison with the status st, resolv_states, and the exit for
\* state=absent.
StateStep(i, st) ==
    /\ pc[i] = "state"
    /\ IF StateDiffers(st, params)
       THEN LET todo == resolv_states(st.state, params.state) IN
            /\ changed' = [changed EXCEPT ![i] = TRUE]
            /\ IF todo.fail
               THEN /\ pc' = [pc EXCEPT ![i] = "failed"]
                    /\ result' = [result EXCEPT ![i] = fail_json(todo.msg)]
                    /\ UNCHANGED <<fs, calls, raised>>
               ELSE \E r \in Invoke(todo.call, fs, neutralized) :
                    /\ fs' = r.fs
                    /\ calls' = [calls EXCEPT ![i] = Append(@, todo.call)]
                    /\ IF ~r.ok
                       THEN /\ raised' = [raised EXCEPT ![i] = Len(calls[i]) + 1]
                            /\ pc' = [pc EXCEPT ![i] = ResolvExcept(params).pc]
                            /\ result' = [result EXCEPT ![i] = ResolvExcept(params).result]
                       ELSE /\ UNCHANGED raised
                            /\ IF ExitsAfterState(params)
                               THEN /\ pc' = [pc EXCEPT ![i] = "done"]
                                    /\ result' = [result EXCEPT ![i] = exit_json(TRUE)]
                               ELSE /\ pc' = [pc EXCEPT ![i] = "owner"]
                                    /\ UNCHANGED result
       ELSE /\ IF ExitsAfterState(params)
               THEN /\ pc' = [pc EXCEPT ![i] = "done"]
                    /\ result' = [result EXCEPT ![i] = exit_json(changed[i])]
               ELSE /\ pc' = [pc EXCEPT ![i] = "owner"]
                    /\ UNCHANGED result
            /\ UNCHANGED <<fs, calls, changed, raised>>
    /\ UNCHANGED <<params, check_mode, neutralized, status>>

\* main() looking at the path again instead of at the status it holds.
Main_State_requery(i) == StateStep(i, stats(fs))

Main_State(i) == StateStep(i, status[i])

\* One attribute section of main(): if wanted, set changed and make the call; an
\* HdfsUtilsError of the call is not caught.  The last section ends in exit_json.
Section(i, here, wanted, call, next) ==
    /\ pc[i] = here
    /\ IF wanted
       THEN \E r \in Invoke(call, fs, neutralized) :
            /\ fs' = r.fs
            /\ changed' = [changed EXCEPT ![i] = TRUE]
            /\ calls' = [calls EXCEPT ![i] = Append(@, call)]
            /\ IF ~r.ok
               THEN /\ raised' = [raised EXCEPT ![i] = Len(calls[i]) + 1]
                    /\ pc' = [pc EXCEPT ![i] = "failed"]
                    /\ result' = [result EXCEPT ![i] = Traceback("HdfsUtilsError")]
               ELSE /\ UNCHANGED raised
                    /\ pc' = [pc EXCEPT ![i] = next]
                    /\ result' = IF next = "done"
                                 THEN [result EXCEPT ![i] = exit_json(TRUE)]
                                 ELSE result
       ELSE /\ pc' = [pc EXCEPT ![i] = next]
            /\ result' = IF next = "done"
                         THEN [result EXCEPT ![i] = exit_json(changed[i])]
                         ELSE result
            /\ UNCHANGED <<fs, changed, calls, raised>>
    /\ UNCHANGED <<params, check_mode, neutralized, status>>

Main_Owner(i) ==
    Section(i, "owner", OwnerWanted(status[i], params), OwnerCall(params), "group")

Main_Group(i) ==
    Section(i, "group", GroupWanted(status[i], params), GroupCall(params), "replication")

\* The REPLICATION section written as a copy of the MODE section.
Main_Replication_mode(i) ==
    Section(i, "replication", ModeWanted(params), ModeCall(params), "mode")

Main_Replication(i) ==
    Section(i, "replication", ReplicationWanted(status[i], params),
            ReplicationCall(params), "mode")

Main_Mode(i) ==
    Section(i, "mode", ModeWanted(params), ModeCall(params), "done")

Next ==
    \E i \in Runs :
        \/ Main_Context(i)
        \/ Main_Stats(i)
        \/ Main_State(i)
        \/ Main_Owner(i)
        \/ Main_Group(i)
        \/ Main_Replication(i)
        \/ Main_Mode(i)

Spec == Init /\ [][Next]_vars

-----------------------------------------------------------------------------
(* Properties *)

Ended(i) == pc[i] \in {"done", "failed"}

\* The invocation has queried the path: main() is past line 192.
Queried(i) == Len(calls[i]) >= 1

\* The invocation is past the STATE section of main().
PastState(i) == Queried(i) /\ pc[i] # "state"

Count(i, op) == Cardinality({k \in DOMAIN calls[i] : calls[i][k].op = op})

Mutating == {"mkdir", "remove", "touch", "chown", "setrep", "chmod"}

NoMutation(i) == \A k \in DOMAIN calls[i] : calls[i][k].op \notin Mutating

StatsCall == CallRec("stats", None, None, None, None)

\* The text is the plain decimal spelling of a number.
PlainDecimal(s) == IsDigits(s) /\ s = Decimal(ParseInt(s))

(* C1, as stated: for a task whose state is file, directory or absent, an
   invocation that follows another one of the same task, with nobody else
   changing the path in between, reports changed=false. *)
C1_SecondRunUnchanged_Original ==
    \A i \in Runs :
        (i > 1 /\ pc[i] = "done" /\ params.state \in {"file", "directory", "absent"})
            => result[i].changed = FALSE

\* The tasks for which a second invocation finds nothing to do.
C1_Settles(pa) ==
    /\ pa.state \in {"file", "directory", "absent"}
    /\ pa.state # "absent" =>
        /\ pa.mode = None
        /\ pa.replication # None => (pa.state = "file" /\ PlainDecimal(pa.replication.s))
        /\ pa.owner # PyStr(NoneText)
        /\ pa.group # PyStr(NoneText)

(* C1, amended: for a task whose state is absent, or whose state is file or
   directory with mode unset, with replication unset or a plain decimal number
   requested of a file, and with neither owner nor group spelled "None", an
   invocation that follows another one of the same task, with nobody else
   changing the path in between, reports changed=false. *)
C1_SecondRunUnchanged ==
    \A i \in Runs :
        (i > 1 /\ pc[i] = "done" /\ C1_Settles(params))
            => /\ result[i] = exit_json(FALSE)
               /\ NoMutation(i)

\* A second invocation with nothing to do, after a first one that made the
\* directory and set its owner and group.
C1_Witness ==
    /\ pc[2] = "done"
    /\ C1_Settles(params)
    /\ params.state = "directory" /\ params.owner # None /\ params.group # None
    /\ result[1] = exit_json(TRUE)
    /\ Count(1, "mkdir") = 1 /\ Count(1, "chown") = 2
    /\ result[2] = exit_json(FALSE)

\* What a run with the real context reports for the path f, no call failing.
RealReport(f, pa) ==
    LET st == stats(f) IN
    IF st.state # pa.state /\ resolv_states(st.state, pa.state).fail
    THEN fail_json(resolv_states(st.state, pa.state).msg)
    ELSE exit_json(\/ st.state # pa.state
                   \/ /\ ~ExitsAfterState(pa)
                      /\ \/ OwnerWanted(st, pa)
                         \/ GroupWanted(st, pa)
                         \/ ReplicationWanted(st, pa)
                         \/ ModeWanted(pa))

\* Everything a run with the real context can report for the path f.
RealReports(f, pa) ==
    {RealReport(f, pa), fail_json("HdfsUtilsError"), Traceback("HdfsUtilsError")}

(* C2: a run in check mode leaves the path as it is, and what it reports (the
   changed flag, or the error) is what a run with the real context reports from
   that state of the path. *)
C2_DryRunReportsAsReal ==
    \A i \in Runs :
        (check_mode /\ params.method = "command" /\ Ended(i))
            => /\ NoMutation(i)
               /\ result[i] \in RealReports(fs, params)

\* The call the transition table gives for (old, new): the method and its flag,
\* or "fail".
C3_Table(old, new) ==
    CASE old = "absent" /\ new = "file" -> <<"fail", None>>
      [] old = "absent" /\ new = "directory" -> <<"mkdir", PyTrue>>
      [] old = "absent" /\ new = "touch" -> <<"touch", None>>
      [] old = "file" /\ new = "touch" -> <<"touch", None>>
      [] old = "file" /\ new = "absent" -> <<"remove", PyFalse>>
      [] old = "directory" /\ new = "absent" -> <<"remove", PyTrue>>
      [] OTHER -> <<"fail", None>>

(* C3: when the queried state differs from the state asked for, the STATE
   section makes exactly the call of the transition table (mkdir with
   parent=True, touch, remove, remove with recurse=True), or fails by fail_json
   without any call for the pairs the table has no call for; the recurse of
   remove is that of the table whatever params.recurse is. *)
C3_TransitionTable ==
    \A i \in Runs :
        (PastState(i) /\ status[i].state # params.state)
            => LET want == C3_Table(status[i].state, params.state) IN
               IF want[1] = "fail"
               THEN /\ calls[i] = <<StatsCall>>
                    /\ pc[i] = "failed"
                    /\ result[i].kind = "fail_json"
                    /\ result[i].msg \in {"no such file", "unsupported state convert"}
               ELSE /\ Len(calls[i]) >= 2
                    /\ calls[i][2] = CallRec(want[1], None, None, want[2], None)
                    /\ Count(i, "mkdir") + Count(i, "touch") + Count(i, "remove") = 1
                    /\ result[i].msg \notin {"no such file", "unsupported state convert"}

\* A directory removed with recurse=True by a task that sets no recurse.
C3_Witness ==
    /\ pc[1] = "done"
    /\ status[1].state = "directory" /\ params.state = "absent"
    /\ params.recurse = None
    /\ calls[1] = <<StatsCall, CallRec("remove", None, None, PyTrue, None)>>
    /\ fs = FsAbsent

(* C4, as stated: every invocation of a task that sets mode, and that reports
   a result, reports changed=true, whatever the state asked for. *)
C4_ModeAlwaysChanged_Original ==
    \A i \in Runs :
        (pc[i] = "done" /\ params.mode # None) => result[i] = exit_json(TRUE)

(* C4, amended: every invocation that ends without error, of a task that sets
   mode and asks for a state other than absent, reports changed=true and has
   made the chmod call, whatever the state of the path and also when it follows
   an invocation of the same task. *)
C4_ModeAlwaysChanged ==
    \A i \in Runs :
        (pc[i] = "done" /\ params.mode # None /\ params.state # "absent")
            => /\ result[i] = exit_json(TRUE)
               /\ calls[i][Len(calls[i])] = CallRec("chmod", None, None, params.recurse, params.mode)
               /\ Count(i, "chmod") = 1

\* A second invocation whose only call is chmod, and which reports changed.
C4_Witness ==
    /\ pc[2] = "done"
    /\ params.state = "file" /\ params.mode # None
    /\ result[1] = exit_json(TRUE)
    /\ result[2] = exit_json(TRUE)
    /\ calls[2] = <<StatsCall, CallRec("chmod", None, None, params.recurse, params.mode)>>

(* C5: an invocation of a task with state=absent makes no chown, setrep or
   chmod call whatever owner, group, replication, mode and recurse are; its
   only call that changes anything is at most one remove, and main() never
   enters its attribute sections. *)
C5_AbsentNoAttributes ==
    \A i \in Runs :
        params.state = "absent"
            => /\ \A k \in DOMAIN calls[i] : calls[i][k].op \in {"stats", "remove"}
               /\ Count(i, "remove") <= 1
               /\ pc[i] \in {"idle", "stats", "state", "done", "failed"}
               /\ PastState(i) => Ended(i)

\* A directory removed by a task that also sets owner, group, replication and mode.
C5_Witness ==
    /\ pc[1] = "done"
    /\ params.state = "absent"
    /\ params.owner # None /\ params.group # None
    /\ params.replication # None /\ params.mode # None /\ params.recurse # None
    /\ status[1].state = "directory"
    /\ Count(1, "remove") = 1
    /\ result[1] = exit_json(TRUE)

(* C6: an invocation of a task with state=absent that finds the path missing
   does not fail: it makes no call that changes anything and exits with
   changed=false. *)
C6_AbsentOnMissing ==
    \A i \in Runs :
        (PastState(i) /\ params.state = "absent" /\ status[i].state = "absent")
            => /\ pc[i] = "done"
               /\ result[i] = exit_json(FALSE)
               /\ calls[i] = <<StatsCall>>
               /\ fs = FsAbsent

\* The path was missing from the start and the first invocation says unchanged.
C6_Witness ==
    /\ pc[1] = "done"
    /\ params.state = "absent"
    /\ status[1].state = "absent"
    /\ result[1] = exit_json(FALSE)
    /\ fs = FsAbsent

\* The invocation has made this very call.
Called(i, c) == \E k \in DOMAIN calls[i] : calls[i][k] = c

(* C7: an invocation of a task with state=touch that ends without error has
   applied every one of owner, group and replication that the task sets, by a
   chown or setrep call that carries it and that the path then shows, whether
   or not the path had that value already; and it has made no such call for
   one the task leaves unset. *)
C7_TouchReapplies ==
    \A i \in Runs :
        (pc[i] = "done" /\ params.state = "touch" /\ (i = MaxRuns \/ pc[i + 1] = "idle"))
            => /\ IF params.owner # None
                  THEN /\ Called(i, CallRec("chown", params.owner, None, params.recurse, None))
                       /\ fs.owner = params.owner.s
                  ELSE \A k \in DOMAIN calls[i] : calls[i][k].owner = None
               /\ IF params.group # None
                  THEN /\ Called(i, CallRec("chown", None, params.group, params.recurse, None))
                       /\ fs.group = params.group.s
                  ELSE \A k \in DOMAIN calls[i] : calls[i][k].group = None
               /\ IF params.replication # None
                  THEN /\ Called(i, CallRec("setrep", None, None, None, params.replication))
                       /\ fs.replication = ParseInt(params.replication.s)
                  ELSE Count(i, "setrep") = 0

\* A touch of a file that already has the owner, group and replication asked for.
C7_Witness ==
    /\ pc[1] = "done"
    /\ params.state = "touch"
    /\ status[1].state = "file"
    /\ params.owner = status[1].owner
    /\ params.group = status[1].group
    /\ params.replication # None
    /\ params.replication.s = Str(status[1].replication)
    /\ Count(1, "chown") = 2 /\ Count(1, "setrep") = 1

(* C8: an invocation of a task with state=touch that finds a file or nothing
   makes exactly one touch call, first of all its calls, and if it ends without
   error it reports changed=true, also with no attribute set and also when it
   follows an invocation of the same task; one that finds a directory fails
   without a touch call. *)
C8_TouchAlways ==
    \A i \in Runs :
        (PastState(i) /\ params.state = "touch")
            => IF status[i].state \in {"absent", "file"}
               THEN /\ Count(i, "touch") = 1
                    /\ calls[i][2] = CallRec("touch", None, None, None, None)
                    /\ changed[i] = TRUE
                    /\ pc[i] = "done" => result[i] = exit_json(TRUE)
               ELSE /\ calls[i] = <<StatsCall>>
                    /\ pc[i] = "failed"
                    /\ result[i] = fail_json("unsupported state convert")

\* A second touch of the file, with no attribute set, reporting changed again.
C8_Witness ==
    /\ pc[2] = "done"
    /\ params.state = "touch"
    /\ params.owner = None /\ params.group = None
    /\ params.replication = None /\ params.mode = None
    /\ status[2].state = "file"
    /\ calls[2] = <<StatsCall, CallRec("touch", None, None, None, None)>>
    /\ result[2] = exit_json(TRUE)

(* C9, as stated: one invocation makes at most one chown call. *)
C9_OneChown_Original ==
    \A i \in Runs : Count(i, "chown") <= 1

(* C9, amended: one invocation makes at most two chown calls, never a combined
   one: when the owner is to apply, one call that carries the owner alone, and
   when the group is to apply, one later call that carries the group alone,
   each with the recurse of the task (and none for state=absent). *)
C9_ChownCalls ==
    \A i \in Runs :
        LET own == {k \in DOMAIN calls[i] :
                        calls[i][k] = CallRec("chown", params.owner, None, params.recurse, None)}
            grp == {k \in DOMAIN calls[i] :
                        calls[i][k] = CallRec("chown", None, params.group, params.recurse, None)}
        IN  /\ Cardinality(own) <= 1
            /\ Cardinality(grp) <= 1
            /\ Count(i, "chown") = Cardinality(own \cup grp)
            /\ own # {} => params.owner # None
            /\ grp # {} => params.group # None
            /\ \A k \in own : \A l \in grp : k < l
            /\ (pc[i] \in {"replication", "mode", "done"} /\ params.state # "absent") =>
                  /\ (own # {}) = OwnerWanted(status[i], params)
                  /\ (grp # {}) = GroupWanted(status[i], params)

\* Owner and group both differ from those of the directory: two chown calls.
C9_Witness ==
    /\ pc[1] = "done"
    /\ params.state = "directory" /\ status[1].state = "directory"
    /\ params.recurse # None
    /\ calls[1] = <<StatsCall,
                    CallRec("chown", params.owner, None, params.recurse, None),
                    CallRec("chown", None, params.group, params.recurse, None)>>
    /\ fs.owner = params.owner.s /\ fs.group = params.group.s

\* The task sets owner and nothing else of group, mode and replication.
OnlyOwner(pa) ==
    pa.owner # None /\ pa.group = None /\ pa.mode = None /\ pa.replication = None

(* C10: an invocation of a task that sets owner alone, on a path that is
   already in the state asked for (file or directory): if the owner differs
   from that of the path, its one call is the chown of the owner (no chmod, no
   setrep, no call of the STATE section) and, ending without error, it reports
   changed=true; if the owner is that of the path, it makes no call and reports
   changed=false. *)
C10_OnlyOwner ==
    \A i \in Runs :
        (Ended(i) /\ Queried(i) /\ OnlyOwner(params)
           /\ params.state \in {"file", "directory"} /\ status[i].state = params.state)
            => IF status[i].owner.s # params.owner.s
               THEN /\ calls[i] = <<StatsCall,
                                    CallRec("chown", params.owner, None, params.recurse, None)>>
                    /\ pc[i] = "done" => (result[i] = exit_json(TRUE) /\ fs.owner = params.owner.s)
                    /\ pc[i] = "failed" => result[i] = Traceback("HdfsUtilsError")
               ELSE /\ calls[i] = <<StatsCall>>
                    /\ result[i] = exit_json(FALSE)

\* The owner differed: one chown, changed; the next invocation: no call, unchanged.
C10_Witness ==
    /\ pc[2] = "done"
    /\ OnlyOwner(params)
    /\ params.state = "file"
    /\ status[1].state = "file" /\ status[1].owner # params.owner
    /\ Count(1, "chown") = 1 /\ Len(calls[1]) = 2
    /\ result[1] = exit_json(TRUE)
    /\ calls[2] = <<StatsCall>>
    /\ result[2] = exit_json(FALSE)

(* C11: if a call of the invocation raises HdfsUtilsError (the transition call,
   a chown, the setrep or the chmod), that call is the last one the invocation
   makes, and the invocation ends with an error (fail_json or a traceback),
   never with exit_json. *)
C11_ErrorAborts ==
    \A i \in Runs :
        raised[i] # 0
            => /\ raised[i] = Len(calls[i])
               /\ calls[i][raised[i]].op \in Mutating
               /\ pc[i] = "failed"
               /\ result[i] \in {fail_json("HdfsUtilsError"), Traceback("HdfsUtilsError")}

\* The mkdir went through, the chown of the owner raised: nothing after it.
C11_Witness ==
    /\ raised[1] = 3
    /\ Count(1, "mkdir") = 1
    /\ calls[1][3].op = "chown"
    /\ params.group # None /\ params.replication # None /\ params.mode # None
    /\ pc[1] = "failed"
    /\ fs.kind = "directory"

\* Where a call stands in the order of main().
C12_Rank(c) ==
    CASE c.op = "stats" -> 0
      [] c.op \in {"mkdir", "touch", "remove"} -> 1
      [] c.op = "chown" /\ c.owner # None -> 2
      [] c.op = "chown" -> 3
      [] c.op = "setrep" -> 4
      [] OTHER -> 5

(* C12: every invocation that reaches the reconciliation calls stats exactly
   once, before every other call; its transition call, if any, comes before
   its attribute calls; and its attribute calls come in the order owner,
   group, replication, mode, each at most once. *)
C12_CallOrder ==
    \A i \in Runs :
        /\ pc[i] \in {"state", "owner", "group", "replication", "mode", "done"} => Queried(i)
        /\ Queried(i) => (calls[i][1] = StatsCall /\ Count(i, "stats") = 1)
        /\ \A k \in DOMAIN calls[i] : \A l \in DOMAIN calls[i] :
                k < l => C12_Rank(calls[i][k]) < C12_Rank(calls[i][l])

\* All six calls of one invocation, in order.
C12_Witness ==
    /\ pc[1] = "done"
    /\ Len(calls[1]) = 6
    /\ calls[1][2].op = "mkdir"
    /\ calls[1][3] = OwnerCall(params)
    /\ calls[1][4] = GroupCall(params)
    /\ calls[1][5].op = "setrep"
    /\ calls[1][6].op = "chmod"

\* The pairs (old, new) that resolv_states has no call for.
Unsupported(old, new) == old # new /\ C3_Table(old, new)[1] = "fail"

(* C13: an invocation that meets a pair (old, new) with no conversion (absent
   to file, directory to file, directory to touch, file to directory) makes no
   call that changes anything, leaves the path as it was, and ends with an
   error, not with exit_json; in real mode the error is the fail_json of
   resolv_states, made right after the status query; in check mode too the
   invocation ends with an error and without such a call. *)
C13_UnsupportedFailsFast ==
    \A i \in Runs :
        (Ended(i) /\ params.method = "command")
            => IF check_mode
               THEN Unsupported(stats(fs).state, params.state)
                        => /\ NoMutation(i)
                           /\ result[i].kind \in {"fail_json", "traceback"}
               ELSE Unsupported(status[i].state, params.state)
                        => /\ calls[i] = <<StatsCall>>
                           /\ stats(fs) = status[i]
                           /\ pc[i] = "failed"
                           /\ changed[i] = TRUE
                           /\ result[i] \in {fail_json("no such file"),
                                             fail_json("unsupported state convert")}

\* state=file asked of a directory: fail_json, and the directory is as it was.
C13_Witness ==
    /\ ~check_mode
    /\ pc[1] = "failed"
    /\ status[1].state = "directory" /\ params.state = "file"
    /\ params.owner # None /\ params.mode # None
    /\ result[1] = fail_json("unsupported state convert")
    /\ fs.kind = "directory"

(* C14: an invocation that finds the path missing and makes the directory
   compares with the status of before the mkdir, so, ending without error, it
   has made after the mkdir the call of every attribute the task sets (chown of
   the owner, chown of the group, setrep, chmod), whatever owner and group the
   new directory got, and it reports changed=true. *)
C14_FreshDirectoryGetsAll ==
    \A i \in Runs :
        (pc[i] = "done" /\ status[i].state = "absent" /\ params.state = "directory")
            => /\ result[i] = exit_json(TRUE)
               /\ calls[i][2] = CallRec("mkdir", None, None, PyTrue, None)
               /\ params.owner # None => Called(i, OwnerCall(params))
               /\ params.group # None => Called(i, GroupCall(params))
               /\ params.replication # None => Called(i, ReplicationCall(params))
               /\ params.mode # None => Called(i, ModeCall(params))

(* C15: every status returned by stats has its state among file, directory
   and absent; for a missing path it is absent with owner, group and
   replication None, and no error; for a file or a directory it has the owner
   and the group of the path as strings and its replication as an integer. *)
C15_StatusRecord ==
    \A i \in Runs :
        Queried(i)
            => /\ status[i].state \in {"file", "directory", "absent"}
               /\ IF status[i].state = "absent"
                  THEN /\ status[i].owner = None
                       /\ status[i].group = None
                       /\ status[i].replication = None
                  ELSE /\ status[i].owner.k = "str" /\ status[i].owner.s # <<>>
                       /\ status[i].group.k = "str" /\ status[i].group.s # <<>>
                       /\ status[i].replication.k = "int"
               /\ pc[i] = "state" =>
                    /\ raised[i] = 0 /\ result[i] = NoResult
                    /\ (status[i].state = "absent") = (fs.kind = "absent")
                    /\ (status[i].state = "file") = (fs.kind = "regular file")
                    /\ fs.kind # "absent" =>
                         /\ status[i].owner = PyStr(fs.owner)
                         /\ status[i].group = PyStr(fs.group)
                         /\ status[i].replication = PyInt(fs.replication)

\* The status of a file, just returned.
C15_Witness ==
    /\ pc[1] = "state"
    /\ fs.kind = "regular file"
    /\ status[1].state = "file"
    /\ status[1].replication = PyInt(MaxRep)
    /\ status[1].owner = PyStr(NoneText)

-----------------------------------------------------------------------------
(* HdfsContextCli.chown called on its own *)

\* A caller of the context calling chown(path, owner, group, recurse) with the
\* owner, the group and the flag of the task: the command line is run, and the
\* method returns or raises HdfsUtilsError.
Caller_chown(i) ==
    /\ MayStart(i)
    /\ LET call == CallRec("chown", params.owner, params.group, params.recurse, None) IN
       \E r \in Invoke(call, fs, FALSE) :
            /\ fs' = r.fs
            /\ calls' = [calls EXCEPT ![i] = Append(@, call)]
            /\ raised' = IF r.ok THEN raised ELSE [raised EXCEPT ![i] = 1]
            /\ pc' = [pc EXCEPT ![i] = IF r.ok THEN "done" ELSE "failed"]
    /\ UNCHANGED <<params, check_mode, neutralized, status, changed, result>>

NextChown == \E i \in Runs : Caller_chown(i)

SpecChown == Init /\ [][NextChown]_vars

(* C16: a chown that returned has changed every attribute it was given: the
   owner when an owner was given, the group when a group was given, both when
   both were given, with the one command it ran. *)
C16_ChownChangesGiven ==
    \A i \in Runs :
        (pc[i] = "done" /\ Len(calls[i]) = 1 /\ calls[i][1].op = "chown")
            => /\ params.owner # None => fs.owner = params.owner.s
               /\ params.group # None => fs.group = params.group.s

-----------------------------------------------------------------------------
(* Invocations of the same task at the same time *)

\* main() holds no lock on the path: an invocation started by another host, or
\* by another play, starts whatever the others are doing, and the steps of the
\* invocations interleave at every call of the context.
Race_Context(i) == Context(i)

NextRace ==
    \E i \in Runs :
        \/ Race_Context(i)
        \/ Main_Stats(i)
        \/ Main_State(i)
        \/ Main_Owner(i)
        \/ Main_Group(i)
        \/ Main_Replication(i)
        \/ Main_Mode(i)

SpecRace == Init /\ [][NextRace]_vars

\* The invocation has made the call of its STATE section.
Transitioned(i) == Len(calls[i]) >= 2 /\ calls[i][2].op \in {"mkdir", "remove", "touch"}

(* C17: concurrent invocations on the same path are not held back by one
   another and each acts on the status it queried, never on a fresh one: past
   its STATE section, an invocation whose own status differs from the task's
   state has failed in resolv_states or has made the call resolv_states gives
   for that status, and one whose status equals it has made no such call.  With
   state=absent, when two invocations that both observed a file have both
   issued remove and ended, at most one remove went through: the other ended
   with the error of the backend. *)
C17_ActsOnQueriedStatus ==
    \A i \in Runs :
        /\ PastState(i) =>
            LET todo == resolv_states(status[i].state, params.state) IN
            IF status[i].state = params.state THEN ~Transitioned(i)
            ELSE IF todo.fail THEN calls[i] = <<StatsCall>> /\ result[i] = fail_json(todo.msg)
            ELSE Transitioned(i) /\ calls[i][2] = todo.call
        /\ \A j \in Runs \ {i} :
            (/\ params.state = "absent"
             /\ status[i].state = "file" /\ status[j].state = "file"
             /\ Transitioned(i) /\ Transitioned(j)
             /\ Ended(i) /\ Ended(j))
                => /\ ~(pc[i] = "done" /\ pc[j] = "done")
                   /\ \E l \in {i, j} : /\ pc[l] = "failed"
                                        /\ raised[l] = 2
                                        /\ result[l] = fail_json("HdfsUtilsError")

\* Both invocations saw the file and both issued remove; the first went through
\* and the second ran against the path already removed.
C17_Witness ==
    /\ params.state = "absent"
    /\ status[1].state = "file" /\ status[2].state = "file"
    /\ calls[1] = <<StatsCall, CallRec("remove", None, None, PyFalse, None)>>
    /\ calls[2] = calls[1]
    /\ result[1] = exit_json(TRUE)
    /\ result[2] = fail_json("HdfsUtilsError")
    /\ raised[2] = 2
    /\ fs.kind = "absent"

-----------------------------------------------------------------------------
(* C18: an invocation that completes without error reports changed=true
   exactly when it invoked at least one of mkdir, remove, touch, chown, setrep
   and chmod; and the path changes only in a step in which an invocation makes
   one of these calls and has raised its `changed`, so that a report of
   changed=false comes with no such call and with the path left as it was. *)
C18_ChangedIffMutated ==
    /\ [](\A i \in Runs :
            pc[i] = "done"
                => /\ result[i].kind = "exit_json"
                   /\ result[i].changed = changed[i]
                   /\ result[i].changed = ~NoMutation(i)
                   /\ (~result[i].changed /\ (IF i = MaxRuns THEN TRUE ELSE pc[i + 1] = "idle"))
                        => stats(fs) = status[i])
    /\ [][fs' # fs
            => \E i \in Runs :
                /\ Len(calls'[i]) = Len(calls[i]) + 1
                /\ calls'[i][Len(calls'[i])].op \in Mutating
                /\ changed'[i]]_vars

\* A task with an owner set, completed with changed=false and the query alone.
C18_Witness ==
    /\ pc[1] = "done"
    /\ result[1] = exit_json(FALSE)
    /\ calls[1] = <<StatsCall>>
    /\ params.owner # None
    /\ params.state = "file"

-----------------------------------------------------------------------------
\* The state a fresh status shows once the task's state is reached.
Desired(pa) == IF pa.state = "touch" THEN "file" ELSE pa.state

\* No invocation has started since invocation i ended.
Latest(i) == IF i = MaxRuns THEN TRUE ELSE pc[i + 1] = "idle"

(* C19: after an invocation in real mode that completes without error, with
   nothing else acting on the path, a fresh status shows the task's state
   (file for touch) and, unless that state is absent, the owner and the group
   the task sets. *)
C19_Converges ==
    \A i \in Runs :
        (pc[i] = "done" /\ ~check_mode /\ Latest(i))
            => /\ stats(fs).state = Desired(params)
               /\ params.state # "absent" =>
                    /\ params.owner # None => stats(fs).owner = params.owner
                    /\ params.group # None => stats(fs).group = params.group

=============================================================================
